---- MODULE Spec2Model ----
(***************************************************************************)
(* A model of the 24 Game solver (main.go).                                *)
(*                                                                         *)
(* Strings are sequences of byte codes, so that sort.Strings, strings.Join *)
(* and fmt.Sprintf are modelled by what they do to the bytes.  A float64   *)
(* is a reduced fraction <<numerator, denominator>> with a positive        *)
(* denominator.  Every value the solver computes comes from at most three  *)
(* operations on digits 1..9, so it is a fraction with a denominator of at *)
(* most 9^3: if it is not zero it is at least 1/729 in magnitude, and if   *)
(* it is not 24 it is at least 1/729 away from 24, while float64 rounding  *)
(* moves it by less than 1e-12.  So a value is "below 1e-9 in magnitude"   *)
(* exactly when the fraction is zero and "within 1e-9 of 24" exactly when  *)
(* the fraction is 24.                                                     *)
(***************************************************************************)
EXTENDS Integers, Sequences, FiniteSets, TLC

(***************************************************************************)
(* Bounds of the model.                                                    *)
(***************************************************************************)
\* how many entries of InputPool a single search may be asked for
NumInputs == 10
\* how many entries of InputPool the user of a session chooses from
NumSessionInputs == 2
\* how many requests a session serves before the user quits
MaxRequests == 3

(***************************************************************************)
(* Bytes and strings.                                                      *)
(***************************************************************************)
Code(c) ==
    CASE c = " " -> 32
      [] c = "%" -> 37
      [] c = "(" -> 40
      [] c = ")" -> 41
      [] c = "*" -> 42
      [] c = "+" -> 43
      [] c = "-" -> 45
      [] c = "." -> 46
      [] c = "/" -> 47
      [] c = "0" -> 48
      [] c = "1" -> 49
      [] c = "f" -> 102
      [] c = "s" -> 115

Str(t) == [i \in 1..Len(t) |-> Code(t[i])]

RECURSIVE StrLess(_, _)
StrLess(a, b) ==
    IF a = <<>> THEN b # <<>>
    ELSE IF b = <<>> THEN FALSE
    ELSE IF a[1] # b[1] THEN a[1] < b[1]
    ELSE StrLess(Tail(a), Tail(b))

RECURSIVE InsertSorted(_, _)
InsertSorted(x, s) ==
    IF s = <<>> THEN <<x>>
    ELSE IF StrLess(s[1], x) THEN <<s[1]>> \o InsertSorted(x, Tail(s))
    ELSE <<x>> \o s

RECURSIVE SortStrings(_)
SortStrings(s) ==
    IF s = <<>> THEN <<>> ELSE InsertSorted(s[1], SortStrings(Tail(s)))

RECURSIVE Join(_, _)
Join(elems, sep) ==
    IF elems = <<>> THEN <<>>
    ELSE IF Len(elems) = 1 THEN elems[1]
    ELSE elems[1] \o sep \o Join(Tail(elems), sep)

(***************************************************************************)
(* Numbers.                                                                *)
(***************************************************************************)
Abs(x) == IF x < 0 THEN -x ELSE x

RECURSIVE Gcd(_, _)
Gcd(a, b) == IF b = 0 THEN a ELSE Gcd(b, a % b)

Float(n, d) ==
    LET g == Gcd(Abs(n), Abs(d))
        s == IF d < 0 THEN -1 ELSE 1
    IN  <<(s * n) \div g, (s * d) \div g>>

Num(n) == <<n, 1>>

operations == <<"+", "-", "*", "/">>

calculate(a, b, op) ==
    CASE op = "+" -> [v |-> Float(a[1] * b[2] + b[1] * a[2], a[2] * b[2]), ok |-> TRUE]
      [] op = "-" -> [v |-> Float(a[1] * b[2] - b[1] * a[2], a[2] * b[2]), ok |-> TRUE]
      [] op = "*" -> [v |-> Float(a[1] * b[1], a[2] * b[2]), ok |-> TRUE]
      [] op = "/" -> IF b[1] = 0
                     THEN [v |-> Num(0), ok |-> FALSE]
                     ELSE [v |-> Float(a[1] * b[2], a[2] * b[1]), ok |-> TRUE]
      [] OTHER -> [v |-> Num(0), ok |-> FALSE]

\* isApproximately24 without math.Abs: value - 24.0 < 1e-9
isApproximately24_NoAbs(value) == value[1] <= 24 * value[2]

isApproximately24(value) == value = Num(24)

\* generatePermutations stopping the recursion at once
generatePermutations_Identity(numbers) == <<numbers>>

RECURSIVE generatePermutations(_)
generatePermutations(numbers) ==
    IF Len(numbers) <= 1 THEN <<numbers>>
    ELSE LET remaining(i) == SubSeq(numbers, 1, i - 1) \o SubSeq(numbers, i + 1, Len(numbers))
             sub(i) == generatePermutations(remaining(i))
             from(i) == [k \in 1..Len(sub(i)) |-> <<numbers[i]>> \o sub(i)[k]]
             RECURSIVE all(_)
             all(i) == IF i > Len(numbers) THEN <<>> ELSE from(i) \o all(i + 1)
         IN  all(1)

generateOperations ==
    [k \in 1..64 |-> <<operations[((k - 1) \div 16) + 1],
                       operations[(((k - 1) \div 4) % 4) + 1],
                       operations[((k - 1) % 4) + 1]>>]

(***************************************************************************)
(* Expression trees.  A nil pointer is the empty sequence and a pointer to *)
(* a node is the one-element sequence holding the node.                    *)
(***************************************************************************)
Nil == <<>>

Leaf(v) == [op |-> "", value |-> v, left |-> Nil, right |-> Nil]

Node(o, v, l, r) == [op |-> o, value |-> v, left |-> <<l>>, right |-> <<r>>]

IsLeaf(node) == node.left = Nil /\ node.right = Nil

RECURSIVE Digits(_)
Digits(n) == IF n < 10 THEN <<48 + n>> ELSE Digits(n \div 10) \o <<48 + (n % 10)>>

\* the operands are whole numbers 1..9 (parseInput rejects anything else),
\* for which FormatFloat(n, 'g', -1, 64) is the decimal numeral
numStr(n) == Digits(n[1])

RECURSIVE getCanonicalKey(_), collectOperands(_, _, _)
collectOperands(node, op, operands) ==
    IF node.op = op
    THEN LET afterLeft == IF node.left # Nil
                          THEN collectOperands(node.left[1], op, operands)
                          ELSE operands
         IN  IF node.right # Nil
             THEN collectOperands(node.right[1], op, afterLeft)
             ELSE afterLeft
    ELSE Append(operands, getCanonicalKey(node))

\* getCanonicalKey without the rule for division by one
getCanonicalKey_NoDivIdentity(node) ==
    IF node.left = Nil /\ node.right = Nil THEN numStr(node.value)
    ELSE LET keyL == getCanonicalKey(node.left[1])
             keyR == getCanonicalKey(node.right[1])
             one == Str(<<"1">>)
         IN  IF node.op = "*" /\ keyL = one THEN keyR
             ELSE IF node.op = "*" /\ keyR = one THEN keyL
             ELSE IF node.op = "+" \/ node.op = "*"
                  THEN Str(<<"(">>)
                       \o Join(SortStrings(collectOperands(node, node.op, <<>>)),
                               Str(<<node.op>>))
                       \o Str(<<")">>)
             ELSE Str(<<"(">>) \o keyL \o Str(<<node.op>>) \o keyR \o Str(<<")">>)

getCanonicalKey(node) ==
    IF node.left = Nil /\ node.right = Nil THEN numStr(node.value)
    ELSE LET keyL == getCanonicalKey(node.left[1])
             keyR == getCanonicalKey(node.right[1])
             one == Str(<<"1">>)
         IN  IF node.op = "*" /\ keyL = one THEN keyR
             ELSE IF node.op = "*" /\ keyR = one THEN keyL
             ELSE IF node.op = "/" /\ keyR = one THEN keyL
             ELSE IF node.op = "+" \/ node.op = "*"
                  THEN Str(<<"(">>)
                       \o Join(SortStrings(collectOperands(node, node.op, <<>>)),
                               Str(<<node.op>>))
                       \o Str(<<")">>)
             ELSE Str(<<"(">>) \o keyL \o Str(<<node.op>>) \o keyR \o Str(<<")">>)

(***************************************************************************)
(* fmt.Sprintf for the two verbs the formulas use.                         *)
(***************************************************************************)
\* "%.0f" of a whole number is its decimal numeral
FormatF0(x) == Digits(x[1] \div x[2])

RECURSIVE Sprintf(_, _)
Sprintf(format, args) ==
    IF format = <<>> THEN <<>>
    ELSE IF format[1] = Code("%")
         THEN IF format[2] = Code("s")
              THEN Str(<<args[1]>>) \o Sprintf(SubSeq(format, 3, Len(format)), Tail(args))
              ELSE FormatF0(args[1]) \o Sprintf(SubSeq(format, 5, Len(format)), Tail(args))
    ELSE <<format[1]>> \o Sprintf(Tail(format), args)

PF == <<"%", ".", "0", "f">>

PS == <<"%", "s">>

formulas ==
    <<Str(<<"(", "(">> \o PF \o <<" ">> \o PS \o <<" ">> \o PF \o <<")", " ">> \o PS
          \o <<" ">> \o PF \o <<")", " ">> \o PS \o <<" ">> \o PF),
      Str(<<"(">> \o PF \o <<" ">> \o PS \o <<" ", "(">> \o PF \o <<" ">> \o PS
          \o <<" ">> \o PF \o <<")", ")", " ">> \o PS \o <<" ">> \o PF),
      Str(PF \o <<" ">> \o PS \o <<" ", "(", "(">> \o PF \o <<" ">> \o PS
          \o <<" ">> \o PF \o <<")", " ">> \o PS \o <<" ">> \o PF \o <<")">>),
      Str(PF \o <<" ">> \o PS \o <<" ", "(">> \o PF \o <<" ">> \o PS
          \o <<" ", "(">> \o PF \o <<" ">> \o PS \o <<" ">> \o PF \o <<")", ")">>),
      Str(<<"(">> \o PF \o <<" ">> \o PS \o <<" ">> \o PF \o <<")", " ">> \o PS
          \o <<" ", "(">> \o PF \o <<" ">> \o PS \o <<" ">> \o PF \o <<")">>)>>

(***************************************************************************)
(* The five shapes, evaluated bottom-up one node at a time.                *)
(***************************************************************************)
Shapes == 1..5

Failed == [ok |-> FALSE, tree |-> Leaf(Num(0))]

Operand(v) == [ok |-> TRUE, tree |-> Leaf(v)]

Apply(o, l, r) ==
    IF l.ok /\ r.ok
    THEN LET c == calculate(l.tree.value, r.tree.value, o)
         IN  IF c.ok THEN [ok |-> TRUE, tree |-> Node(o, c.v, l.tree, r.tree)] ELSE Failed
    ELSE Failed

ShapeExpr(s, perm, ops) ==
    LET a == Operand(perm[1])
        b == Operand(perm[2])
        c == Operand(perm[3])
        d == Operand(perm[4])
    IN  CASE s = 1 -> Apply(ops[3], Apply(ops[2], Apply(ops[1], a, b), c), d)
          [] s = 2 -> Apply(ops[3], Apply(ops[1], a, Apply(ops[2], b, c)), d)
          [] s = 3 -> Apply(ops[1], a, Apply(ops[3], Apply(ops[2], b, c), d))
          [] s = 4 -> Apply(ops[1], a, Apply(ops[2], b, Apply(ops[3], c, d)))
          [] s = 5 -> Apply(ops[2], Apply(ops[1], a, b), Apply(ops[3], c, d))

Is24(e) == e.ok /\ e.tree.value = Num(24)

\* the shape a four-leaf tree has
ShapeOf(tree) ==
    LET l == tree.left[1]
        r == tree.right[1]
    IN  IF ~IsLeaf(l) /\ ~IsLeaf(r) THEN 5
        ELSE IF ~IsLeaf(l) THEN (IF ~IsLeaf(l.left[1]) THEN 1 ELSE 2)
        ELSE (IF ~IsLeaf(r.left[1]) THEN 3 ELSE 4)

(***************************************************************************)
(* findSolutions: the five parenthesis patterns, then the registry.        *)
(***************************************************************************)
\* Pattern 1: ((a op b) op c) op d
Pattern1(n, op) ==
    LET c1 == calculate(n[1].value, n[2].value, op[1])
        c2 == calculate(c1.v, n[3].value, op[2])
        c3 == calculate(c2.v, n[4].value, op[3])
    IN  IF c1.ok /\ c2.ok /\ c3.ok /\ isApproximately24(c3.v)
        THEN LET node1 == Node(op[1], c1.v, n[1], n[2])
                 node2 == Node(op[2], c2.v, node1, n[3])
             IN  <<Node(op[3], c3.v, node2, n[4])>>
        ELSE <<>>

\* Pattern 2: (a op (b op c)) op d
Pattern2(n, op) ==
    LET c1 == calculate(n[2].value, n[3].value, op[2])
        c2 == calculate(n[1].value, c1.v, op[1])
        c3 == calculate(c2.v, n[4].value, op[3])
    IN  IF c1.ok /\ c2.ok /\ c3.ok /\ isApproximately24(c3.v)
        THEN LET node1 == Node(op[2], c1.v, n[2], n[3])
                 node2 == Node(op[1], c2.v, n[1], node1)
             IN  <<Node(op[3], c3.v, node2, n[4])>>
        ELSE <<>>

\* Pattern 3: a op ((b op c) op d)
Pattern3(n, op) ==
    LET c1 == calculate(n[2].value, n[3].value, op[2])
        c2 == calculate(c1.v, n[4].value, op[3])
        c3 == calculate(n[1].value, c2.v, op[1])
    IN  IF c1.ok /\ c2.ok /\ c3.ok /\ isApproximately24(c3.v)
        THEN LET node1 == Node(op[2], c1.v, n[2], n[3])
                 node2 == Node(op[3], c2.v, node1, n[4])
             IN  <<Node(op[1], c3.v, n[1], node2)>>
        ELSE <<>>

\* Pattern 4: a op (b op (c op d))
Pattern4(n, op) ==
    LET c1 == calculate(n[3].value, n[4].value, op[3])
        c2 == calculate(n[2].value, c1.v, op[2])
        c3 == calculate(n[1].value, c2.v, op[1])
    IN  IF c1.ok /\ c2.ok /\ c3.ok /\ isApproximately24(c3.v)
        THEN LET node1 == Node(op[3], c1.v, n[3], n[4])
                 node2 == Node(op[2], c2.v, n[2], node1)
             IN  <<Node(op[1], c3.v, n[1], node2)>>
        ELSE <<>>

\* Pattern 5: (a op b) op (c op d)
Pattern5(n, op) ==
    LET c1 == calculate(n[1].value, n[2].value, op[1])
        c2 == calculate(n[3].value, n[4].value, op[3])
        c3 == calculate(c1.v, c2.v, op[2])
    IN  IF c1.ok /\ c2.ok /\ c3.ok /\ isApproximately24(c3.v)
        THEN LET node1 == Node(op[1], c1.v, n[1], n[2])
                 node2 == Node(op[3], c2.v, n[3], n[4])
             IN  <<Node(op[2], c3.v, node1, node2)>>
        ELSE <<>>

\* BuildTrees with pattern 5 tried first
BuildTrees_Pattern5First(perm, ops) ==
    LET n == [i \in 1..4 |-> Leaf(perm[i])]
    IN  Pattern5(n, ops) \o Pattern1(n, ops) \o Pattern2(n, ops)
        \o Pattern3(n, ops) \o Pattern4(n, ops)

\* BuildTrees giving up on the whole pair when one pattern cannot be evaluated
BuildTrees_AbortOnFailure(perm, ops) ==
    LET n == [i \in 1..4 |-> Leaf(perm[i])]
    IN  IF \E s \in Shapes : ~ShapeExpr(s, perm, ops).ok THEN <<>>
        ELSE Pattern1(n, ops) \o Pattern2(n, ops) \o Pattern3(n, ops)
             \o Pattern4(n, ops) \o Pattern5(n, ops)

BuildTrees(perm, ops) ==
    LET n == [i \in 1..4 |-> Leaf(perm[i])]
    IN  Pattern1(n, ops) \o Pattern2(n, ops) \o Pattern3(n, ops)
        \o Pattern4(n, ops) \o Pattern5(n, ops)

\* Collect with the registry never written
RECURSIVE Collect_NoMark(_, _, _, _, _)
Collect_NoMark(trees, i, perm, ops, acc) ==
    IF i >= Len(trees) THEN acc
    ELSE LET tree == trees[i + 1]
             key == getCanonicalKey(tree)
         IN  IF key \notin acc.seenKeys
             THEN LET formula == Sprintf(formulas[i + 1],
                                         <<perm[1], ops[1], perm[2], ops[2],
                                           perm[3], ops[3], perm[4]>>)
                  IN  Collect_NoMark(trees, i + 1, perm, ops,
                              [seenKeys |-> acc.seenKeys,
                               results |-> Append(acc.results,
                                                  [formula |-> formula, value |-> tree.value]),
                               admitted |-> Append(acc.admitted, tree)])
             ELSE Collect_NoMark(trees, i + 1, perm, ops, acc)

\* the loop over trees: i is the 0-based index of the range loop; admitted
\* is the sequence of trees whose Expression was appended to results
RECURSIVE Collect(_, _, _, _, _)
Collect(trees, i, perm, ops, acc) ==
    IF i >= Len(trees) THEN acc
    ELSE LET tree == trees[i + 1]
             key == getCanonicalKey(tree)
         IN  IF key \notin acc.seenKeys
             THEN LET formula == Sprintf(formulas[i + 1],
                                         <<perm[1], ops[1], perm[2], ops[2],
                                           perm[3], ops[3], perm[4]>>)
                  IN  Collect(trees, i + 1, perm, ops,
                              [seenKeys |-> acc.seenKeys \cup {key},
                               results |-> Append(acc.results,
                                                  [formula |-> formula, value |-> tree.value]),
                               admitted |-> Append(acc.admitted, tree)])
             ELSE Collect(trees, i + 1, perm, ops, acc)

findSolutions(perm, ops, seenKeys) ==
    Collect(BuildTrees(perm, ops), 0, perm, ops,
            [seenKeys |-> seenKeys, results |-> <<>>, admitted |-> <<>>])

(***************************************************************************)
(* The session of main: prompt, search, report.                            *)
(***************************************************************************)
\* the requests a user may type, already split into four digits
InputPool ==
    <<<<1, 2, 3, 4>>, <<3, 3, 8, 8>>, <<9, 9, 9, 9>>, <<9, 9, 3, 3>>,
      <<1, 1, 1, 1>>, <<1, 1, 4, 6>>, <<6, 6, 6, 6>>, <<2, 2, 2, 3>>,
      <<1, 5, 5, 5>>, <<4, 4, 4, 4>>, <<1, 3, 4, 6>>, <<2, 5, 7, 9>>>>

Min(a, b) == IF a < b THEN a ELSE b

Inputs == {InputPool[k] : k \in 1..Min(NumInputs, Len(InputPool))}

SessionInputs == {InputPool[k] : k \in 1..Min(NumSessionInputs, Len(InputPool))}

operationCombos == generateOperations

VARIABLES
    pc,               \* "prompt", "search", "report" or "quit": where main is
    nums,             \* the four numbers of the request being served
    permutations,     \* generatePermutations(nums)
    pi,               \* index of the outer loop, into permutations
    oi,               \* index of the inner loop, into operationCombos
    seenKeys,         \* the keys marked true in the seenKeys map
    uniqueSolutions,  \* the result list, a sequence of Expression
    admitted,         \* history: for each Expression of uniqueSolutions, the
                      \* tree it was made from and the loop indices of the call
    lastCall,         \* history: arguments and trees of the last findSolutions
    served,           \* number of requests answered so far
    reported,         \* history: the answers printed so far, in order
    kin,              \* the tree handed to the canonicalizer on its own
    kout              \* the keys it returned for the trees made from kin

vars == <<pc, nums, permutations, pi, oi, seenKeys, uniqueSolutions, admitted,
          lastCall, served, reported, kin, kout>>

canonVars == <<kin, kout>>

NoCall == [perm |-> <<>>, ops |-> <<>>, trees |-> <<>>]

Init ==
    /\ pc = "prompt"
    /\ nums = <<>>
    /\ permutations = <<>>
    /\ pi = 1
    /\ oi = 1
    /\ seenKeys = {}
    /\ uniqueSolutions = <<>>
    /\ admitted = <<>>
    /\ lastCall = NoCall
    /\ served = 0
    /\ reported = <<>>
    /\ kin = Nil
    /\ kout = Nil

\* ReadRequest with the registry made once, before the loop of main
ReadRequest_KeepRegistry(input) ==
    /\ pc = "prompt"
    /\ nums' = [i \in 1..4 |-> Num(input[i])]
    /\ uniqueSolutions' = <<>>
    /\ permutations' = generatePermutations(nums')
    /\ pi' = 1
    /\ oi' = 1
    /\ admitted' = <<>>
    /\ lastCall' = NoCall
    /\ pc' = "search"
    /\ UNCHANGED <<seenKeys, served, reported, canonVars>>

\* a line of four digits is read and parsed; the registry and the result
\* list are created and the two generators run
ReadRequest(input) ==
    /\ pc = "prompt"
    /\ nums' = [i \in 1..4 |-> Num(input[i])]
    /\ uniqueSolutions' = <<>>
    /\ seenKeys' = {}
    /\ permutations' = generatePermutations(nums')
    /\ pi' = 1
    /\ oi' = 1
    /\ admitted' = <<>>
    /\ lastCall' = NoCall
    /\ pc' = "search"
    /\ UNCHANGED <<served, reported, canonVars>>

\* one iteration of the inner loop: a call of findSolutions and the append
FindStep ==
    /\ pc = "search"
    /\ LET perm == permutations[pi]
           ops == operationCombos[oi]
           r == findSolutions(perm, ops, seenKeys)
       IN  /\ seenKeys' = r.seenKeys
           /\ uniqueSolutions' = uniqueSolutions \o r.results
           /\ admitted' = admitted \o [k \in 1..Len(r.admitted) |->
                                          [tree |-> r.admitted[k], pi |-> pi, oi |-> oi]]
           /\ lastCall' = [perm |-> perm, ops |-> ops, trees |-> BuildTrees(perm, ops)]
    /\ IF oi < Len(operationCombos)
       THEN /\ oi' = oi + 1
            /\ UNCHANGED <<pi, pc>>
       ELSE /\ oi' = 1
            /\ pi' = pi + 1
            /\ pc' = IF pi < Len(permutations) THEN "search" ELSE "report"
    /\ UNCHANGED <<nums, permutations, served, reported, canonVars>>

\* the answer is printed and main is back at the prompt
Report ==
    /\ pc = "report"
    /\ reported' = Append(reported, [nums |-> nums, solutions |-> uniqueSolutions])
    /\ served' = served + 1
    /\ pc' = "prompt"
    /\ UNCHANGED <<nums, permutations, pi, oi, seenKeys, uniqueSolutions, admitted, lastCall,
                   canonVars>>

\* the user types quit or the input ends
Quit ==
    /\ pc = "prompt"
    /\ pc' = "quit"
    /\ UNCHANGED <<nums, permutations, pi, oi, seenKeys, uniqueSolutions, admitted,
                   lastCall, served, reported, kin, kout>>

\* one search: the user asks for any one input of the pool
Request == \E input \in Inputs : served = 0 /\ ReadRequest(input)

Next == Request \/ FindStep \/ Report \/ Quit

Spec == Init /\ [][Next]_vars

\* a session: up to MaxRequests requests, each any of the session's inputs
SessionRequest == \E input \in SessionInputs : served < MaxRequests /\ ReadRequest(input)

SessionNext == SessionRequest \/ FindStep \/ Report \/ Quit

SessionSpec == Init /\ [][SessionNext]_vars

(***************************************************************************)
(* The canonicalizer on its own: getCanonicalKey applied to a tree x of    *)
(* one to three leaves and to the four-leaf trees made from x and a leaf.  *)
(***************************************************************************)
MinDigit == 1

MaxDigit == 9

Digit == MinDigit..MaxDigit

OpSet == {operations[k] : k \in 1..Len(operations)}

\* a node built without evaluation: its value is the zero value of float64
Op(o, l, r) == Node(o, Num(0), l, r)

\* the trees of one to three leaves over the digits
IsKeyInput(x) ==
    \/ \E a \in Digit : x = Leaf(Num(a))
    \/ \E o \in OpSet, a, b \in Digit : x = Op(o, Leaf(Num(a)), Leaf(Num(b)))
    \/ \E o1, o2 \in OpSet, a, b, c \in Digit :
          \/ x = Op(o2, Op(o1, Leaf(Num(a)), Leaf(Num(b))), Leaf(Num(c)))
          \/ x = Op(o1, Leaf(Num(a)), Op(o2, Leaf(Num(b)), Leaf(Num(c))))

\* x is (a op b) op c for one commutative, associative op and leaves a, b, c
IsChain(x) ==
    /\ ~IsLeaf(x)
    /\ x.op \in {"+", "*"}
    /\ IsLeaf(x.right[1])
    /\ ~IsLeaf(x.left[1])
    /\ x.left[1].op = x.op
    /\ IsLeaf(x.left[1].left[1])
    /\ IsLeaf(x.left[1].right[1])

KeyInit ==
    /\ pc = "canon"
    /\ nums = <<>>
    /\ permutations = <<>>
    /\ pi = 1
    /\ oi = 1
    /\ seenKeys = {}
    /\ uniqueSolutions = <<>>
    /\ admitted = <<>>
    /\ lastCall = NoCall
    /\ served = 0
    /\ reported = <<>>
    /\ IsKeyInput(kin)
    /\ kout = Nil

\* keys of x, x*1, 1*x and x/1
CanonicalizeIdentity ==
    /\ pc = "canon"
    /\ LET one == Leaf(Num(1))
       IN  kout' = [self |-> getCanonicalKey(kin),
                    timesOne |-> getCanonicalKey(Op("*", kin, one)),
                    oneTimes |-> getCanonicalKey(Op("*", one, kin)),
                    overOne |-> getCanonicalKey(Op("/", kin, one))]
    /\ pc' = "identity"
    /\ UNCHANGED <<kin, nums, permutations, pi, oi, seenKeys, uniqueSolutions, admitted,
                   lastCall, served, reported>>

\* keys of (a op b) op c, a op (b op c) and c op (b op a)
CanonicalizeChain ==
    /\ pc = "canon"
    /\ IsChain(kin)
    /\ LET a == kin.left[1].left[1]
           b == kin.left[1].right[1]
           c == kin.right[1]
       IN  kout' = [grouped |-> getCanonicalKey(kin),
                    regrouped |-> getCanonicalKey(Op(kin.op, a, Op(kin.op, b, c))),
                    reversed |-> getCanonicalKey(Op(kin.op, c, Op(kin.op, b, a)))]
    /\ pc' = "chain"
    /\ UNCHANGED <<kin, nums, permutations, pi, oi, seenKeys, uniqueSolutions, admitted,
                   lastCall, served, reported>>

KeyNext == CanonicalizeIdentity \/ CanonicalizeChain

KeySpec == KeyInit /\ [][KeyNext]_vars

(***************************************************************************)
(* Reading a formula back: the value of the text as written.               *)
(***************************************************************************)
RECURSIVE SkipSpaces(_, _)
SkipSpaces(s, i) ==
    IF i <= Len(s) /\ s[i] = Code(" ") THEN SkipSpaces(s, i + 1) ELSE i

RECURSIVE ReadNumber(_, _, _)
ReadNumber(s, i, n) ==
    IF i <= Len(s) /\ s[i] \in 48..57 THEN ReadNumber(s, i + 1, 10 * n + (s[i] - 48))
    ELSE [ok |-> TRUE, v |-> Num(n), pos |-> i]

NoParse == [ok |-> FALSE, v |-> Num(0), pos |-> 0]

OpOfCode(c) == CHOOSE o \in OpSet : Code(o) = c

\* expr ::= atom | atom op atom      atom ::= number | "(" expr ")"
RECURSIVE ParseExpr(_, _), ParseAtom(_, _)
ParseAtom(s, from) ==
    LET i == SkipSpaces(s, from)
    IN  IF i > Len(s) THEN NoParse
        ELSE IF s[i] = Code("(")
             THEN LET e == ParseExpr(s, i + 1)
                      j == SkipSpaces(s, e.pos)
                  IN  IF e.ok /\ j <= Len(s) /\ s[j] = Code(")")
                      THEN [e EXCEPT !.pos = j + 1]
                      ELSE NoParse
        ELSE IF s[i] \in 48..57 THEN ReadNumber(s, i, 0)
        ELSE NoParse

ParseExpr(s, from) ==
    LET l == ParseAtom(s, from)
        j == SkipSpaces(s, l.pos)
    IN  IF ~l.ok THEN NoParse
        ELSE IF j > Len(s) \/ s[j] = Code(")") THEN [l EXCEPT !.pos = j]
        ELSE IF s[j] \in {Code(o) : o \in OpSet}
             THEN LET r == ParseAtom(s, j + 1)
                      c == calculate(l.v, r.v, OpOfCode(s[j]))
                  IN  IF r.ok /\ c.ok THEN [ok |-> TRUE, v |-> c.v, pos |-> r.pos]
                      ELSE NoParse
        ELSE NoParse

EvalFormula(formula) ==
    LET e == ParseExpr(formula, 1)
    IN  IF e.ok /\ SkipSpaces(formula, e.pos) > Len(formula)
        THEN [ok |-> TRUE, v |-> e.v]
        ELSE [ok |-> FALSE, v |-> Num(0)]

(***************************************************************************)
(* C1  Value correctness.                                                  *)
(***************************************************************************)
\* C1: every Solution of the result list has a formula text that, read back
\* with its own parentheses, operand order and operators, has the value 24,
\* and the text is the template of the shape of the tree that was accepted.
C1_RenderedFormulaIs24 ==
    \A k \in 1..Len(uniqueSolutions) :
        /\ EvalFormula(uniqueSolutions[k].formula) = [ok |-> TRUE, v |-> Num(24)]
        /\ uniqueSolutions[k].formula =
              Sprintf(formulas[ShapeOf(admitted[k].tree)],
                      LET perm == permutations[admitted[k].pi]
                          ops == operationCombos[admitted[k].oi]
                      IN  <<perm[1], ops[1], perm[2], ops[2], perm[3], ops[3], perm[4]>>)

(***************************************************************************)
(* C3  The registry invariant.                                             *)
(***************************************************************************)
AdmittedKeys == [k \in 1..Len(admitted) |-> getCanonicalKey(admitted[k].tree)]

\* C3: in every state of a search the keys of the trees accepted so far are
\* pairwise distinct and are exactly the keys marked in seenKeys (one tree
\* per Solution of the result list).
C3_RegistryInvariant ==
    LET keys == AdmittedKeys
    IN  /\ Len(admitted) = Len(uniqueSolutions)
        /\ \A i, j \in 1..Len(keys) : i # j => keys[i] # keys[j]
        /\ {keys[k] : k \in 1..Len(keys)} = seenKeys

\* a search under way in which the last call built a candidate whose key was
\* already registered, so that it was turned away
C3_Witness ==
    /\ pc = "search"
    /\ Len(admitted) >= 2
    /\ lastCall.trees # <<>>
    /\ \A k \in 1..Len(lastCall.trees) : getCanonicalKey(lastCall.trees[k]) \in seenKeys
    /\ \A k \in 1..Len(admitted) :
          <<admitted[k].pi, admitted[k].oi>> # <<pi, oi - 1>>
    /\ oi > 1

(***************************************************************************)
(* C2  One solution per class of equivalent expressions.                   *)
(***************************************************************************)
\* x*1, 1*x and x/1 rewritten to x, innermost first
RECURSIVE Simplify(_)
Simplify(t) ==
    IF IsLeaf(t) THEN t
    ELSE LET l == Simplify(t.left[1])
             r == Simplify(t.right[1])
             one == Leaf(Num(1))
         IN  IF t.op = "*" /\ l = one THEN r
             ELSE IF t.op = "*" /\ r = one THEN l
             ELSE IF t.op = "/" /\ r = one THEN l
             ELSE Op(t.op, l, r)

\* the sorted operands of the maximal chains of + and of *
RECURSIVE NormalForm(_), Flatten(_, _)
Flatten(t, o) ==
    IF ~IsLeaf(t) /\ t.op = o
    THEN Flatten(t.left[1], o) \o Flatten(t.right[1], o)
    ELSE <<NormalForm(t)>>

NormalForm(t) ==
    IF IsLeaf(t) THEN Digits(t.value[1])
    ELSE IF t.op \in {"+", "*"}
         THEN Str(<<"(">>) \o Join(SortStrings(Flatten(t, t.op)), Str(<<t.op>>)) \o Str(<<")">>)
    ELSE Str(<<"(">>) \o NormalForm(t.left[1]) \o Str(<<t.op>>)
         \o NormalForm(t.right[1]) \o Str(<<")">>)

\* the class of a tree under reordering and regrouping of + and of * and
\* removal of multiplication and division by one
ClassOf(t) == NormalForm(Simplify(t))

\* C2: no two trees accepted into the result list of one search are
\* equivalent, and among the trees a search accepts or builds two trees have
\* the same canonical key if and only if they are equivalent.
C2_OneSolutionPerClass ==
    LET trees == [k \in 1..Len(admitted) |-> admitted[k].tree] \o lastCall.trees
        keys == [k \in 1..Len(trees) |-> getCanonicalKey(trees[k])]
        classes == [k \in 1..Len(trees) |-> ClassOf(trees[k])]
    IN  /\ \A i, j \in 1..Len(admitted) : i # j => classes[i] # classes[j]
        /\ \A i, j \in 1..Len(trees) : (keys[i] = keys[j]) <=> (classes[i] = classes[j])

(***************************************************************************)
(* C4  Discovery order.                                                    *)
(***************************************************************************)
\* the place of shape s of pair (p, o) in the enumeration
Place(p, o, s) == ((p - 1) * Len(operationCombos) + (o - 1)) * 5 + s

PermOfPlace(c) == ((c - 1) \div (5 * Len(operationCombos))) + 1

OpsOfPlace(c) == (((c - 1) \div 5) % Len(operationCombos)) + 1

ShapeOfPlace(c) == ((c - 1) % 5) + 1

AdmittedPlaces ==
    [k \in 1..Len(admitted) |->
        Place(admitted[k].pi, admitted[k].oi, ShapeOf(admitted[k].tree))]

\* C4: the result list is in enumeration order (permutation, then operator
\* triple, then shape 1..5), and when the search has finished it is exactly
\* the 24-valued candidates that are the first of their canonical key.
C4_DiscoveryOrder ==
    LET places == AdmittedPlaces
    IN  /\ \A k \in 1..(Len(places) - 1) : places[k] < places[k + 1]
        /\ pc = "report" =>
              LET perms == generatePermutations(nums)
                  cand == [c \in 1..Place(Len(perms), Len(operationCombos), 5) |->
                              ShapeExpr(ShapeOfPlace(c), perms[PermOfPlace(c)],
                                        operationCombos[OpsOfPlace(c)])]
                  hits == {c \in DOMAIN cand : Is24(cand[c])}
                  keyOf == [c \in hits |-> getCanonicalKey(cand[c].tree)]
                  first == {c \in hits : \A d \in hits : d < c => keyOf[d] # keyOf[c]}
              IN  /\ {places[k] : k \in 1..Len(places)} = first
                  /\ \A k \in 1..Len(places) : admitted[k].tree = cand[places[k]].tree

\* a finished search whose list holds solutions of several permutations
\* and two solutions of one call
C4_Witness ==
    /\ pc = "report"
    /\ \E i, j \in 1..Len(admitted) : admitted[i].pi # admitted[j].pi
    /\ \E i, j \in 1..Len(admitted) :
          /\ i # j
          /\ admitted[i].pi = admitted[j].pi
          /\ admitted[i].oi = admitted[j].oi

(***************************************************************************)
(* C5  Four nines.                                                         *)
(***************************************************************************)
Nines == [i \in 1..4 |-> Num(9)]

UsesMinusOrSlash(formula) ==
    \E i \in 1..Len(formula) : formula[i] \in {Code("-"), Code("/")}

\* C5 as stated: the search for (9, 9, 9, 9) returns a non-empty list in
\* which some solution uses subtraction or division.
C5_FourNinesSolved ==
    (pc = "report" /\ nums = Nines) =>
        /\ uniqueSolutions # <<>>
        /\ \E k \in 1..Len(uniqueSolutions) : UsesMinusOrSlash(uniqueSolutions[k].formula)

\* C5 as amended: the search for (9, 9, 9, 9) returns the empty list; no
\* call of findSolutions builds a 24-valued tree and nothing is registered.
C5_FourNinesEmpty ==
    nums = Nines =>
        /\ uniqueSolutions = <<>>
        /\ seenKeys = {}
        /\ lastCall.trees = <<>>

\* the search for (9, 9, 9, 9) has finished
C5_Witness == pc = "report" /\ nums = Nines /\ lastCall # NoCall

(***************************************************************************)
(* C6  Commutativity and associativity of the key.                         *)
(***************************************************************************)
\* C6: for op in {+, *} and digits a, b, c the trees (a op b) op c,
\* a op (b op c) and c op (b op a) have the same canonical key.
C6_ChainKeysAgree ==
    pc = "chain" => /\ kout.grouped = kout.regrouped
                    /\ kout.grouped = kout.reversed

(***************************************************************************)
(* C7  Identity simplification.                                            *)
(***************************************************************************)
\* C7: for a tree x of one to three leaves, x*1, 1*x and x/1 have the
\* canonical key of x.
C7_IdentityCollapses ==
    pc = "identity" => /\ kout.timesOne = kout.self
                       /\ kout.oneTimes = kout.self
                       /\ kout.overOne = kout.self

\* x is a quotient of a compound expression by a digit other than one, so
\* that x/1 is a division nested in a division
C7_Witness ==
    /\ pc = "identity"
    /\ ~IsLeaf(kin)
    /\ kin.op = "/"
    /\ ~IsLeaf(kin.left[1])
    /\ kin.right[1] # Leaf(Num(1))
    /\ kout.self # Str(<<"1">>)

(***************************************************************************)
(* C8  Determinism across the requests of a session.                       *)
(***************************************************************************)
\* C8: two answers of one session to the same four numbers in the same
\* order are the same list, and every search starts from an empty registry
\* and an empty result list.
C8_SameRequestSameAnswer ==
    /\ \A i, j \in 1..Len(reported) :
          reported[i].nums = reported[j].nums => reported[i].solutions = reported[j].solutions
    /\ (pc = "search" /\ pi = 1 /\ oi = 1) => (seenKeys = {} /\ uniqueSolutions = <<>>)

\* the same request answered twice with a non-empty list, with another
\* request served in between
C8_Witness ==
    /\ Len(reported) >= 3
    /\ reported[1].nums = reported[3].nums
    /\ reported[2].nums # reported[1].nums
    /\ reported[2].solutions # <<>>
    /\ reported[3].solutions # <<>>

(***************************************************************************)
(* C9  A zero divisor fails one shape only.                                *)
(***************************************************************************)
LastShapes == [s \in Shapes |-> ShapeExpr(s, lastCall.perm, lastCall.ops)]

\* C9: the trees a call of findSolutions builds are those of exactly the
\* shapes that evaluate, each on its own, to 24, whatever the other shapes
\* of the pair do; and the call after it is for the next pair.
C9_FailingShapeSkippedAlone ==
    lastCall # NoCall =>
        LET e == LastShapes
            good == {s \in Shapes : Is24(e[s])}
        IN  /\ Len(lastCall.trees) = Cardinality(good)
            /\ \A s \in good : \E k \in 1..Len(lastCall.trees) : lastCall.trees[k] = e[s].tree
            /\ \A k \in 1..Len(lastCall.trees) : ShapeOf(lastCall.trees[k]) \in good
            /\ pc = "search" =>
                  /\ lastCall.perm = permutations[IF oi > 1 THEN pi ELSE pi - 1]
                  /\ lastCall.ops =
                        operationCombos[IF oi > 1 THEN oi - 1 ELSE Len(operationCombos)]

\* a call in which one shape met a zero divisor and another shape was 24
C9_Witness ==
    /\ pc = "search"
    /\ lastCall # NoCall
    /\ \E s \in Shapes : ~LastShapes[s].ok
    /\ lastCall.trees # <<>>

(***************************************************************************)
(* C10  Completeness of the search.                                        *)
(***************************************************************************)
\* every order of the four numbers and every triple of operators
AllOrders == {[i \in 1..4 |-> nums[f[i]]] : f \in Permutations(1..4)}

AllTriples == OpSet \X OpSet \X OpSet

\* C10: when a search has finished, the key of every shape of every order
\* and operator triple that evaluates to 24 is the key of exactly one
\* accepted tree; the list is as long as there are such keys, and it is
\* empty only if there is no such shape.
C10_SearchComplete ==
    pc = "report" =>
        LET hits == {c \in Shapes \X AllOrders \X AllTriples : Is24(ShapeExpr(c[1], c[2], c[3]))}
            hitKeys == {getCanonicalKey(ShapeExpr(c[1], c[2], c[3]).tree) : c \in hits}
            keys == AdmittedKeys
        IN  /\ \A key \in hitKeys : Cardinality({k \in 1..Len(keys) : keys[k] = key}) = 1
            /\ Len(uniqueSolutions) = Cardinality(hitKeys)
            /\ uniqueSolutions = <<>> => hits = {}

\* a finished search with several solutions, one of them found only after
\* the first permutation
C10_Witness ==
    /\ pc = "report"
    /\ Len(uniqueSolutions) >= 2
    /\ \E k \in 1..Len(admitted) : admitted[k].pi > 1

====
